---- MODULE Spec2Model ----
(***************************************************************************)
(* xodb: the LRUDict cache of xodb/tools/__init__.py (an OrderedDict, a     *)
(* dict subclass with an attached key list, plus a size limit).            *)
(*                                                                         *)
(* The code base is Python 2 (print statements, cPickle, basestring), so   *)
(* dict.popitem() removes an ARBITRARY pair of the underlying hash table:  *)
(* which one depends on the keys' hashes.  It is modelled as a choice      *)
(* over every resident key.                                                *)
(*                                                                         *)
(* The geoprint functions of xodb/tools/geoprint.py (encode, decode,      *)
(* error, neighbors, adjacent) are pure and use no cache.  They are        *)
(* modelled three times: on an exact integer grid, for every point and     *)
(* code up to MaxPrec characters (SpecGeo); at the default precision, on   *)
(* the points of the repository's tests (SpecVec); and on binary64         *)
(* floats, for codes up to MaxLen characters (SpecFloat), where the        *)
(* rounding of the midpoints shows.                                        *)
(*                                                                         *)
(* SpecEnum adds the enumeration methods of OrderedDict to the cache, and  *)
(* SpecRpc models the request loop of xodb/net/client.py.                  *)
(***************************************************************************)
EXTENDS Integers, Sequences, FiniteSets, TLC

VARIABLES
    limit,    \* LRUDict.limit
    self,     \* the dict storage of the LRUDict itself: key -> value
    _list,    \* OrderedDict._list, the auxiliary key order list
    op,       \* history: the last completed call [name, key, value]
    ret,      \* history: its outcome [exc, val]
    pre,      \* history: [self, _list] as they were before that call
    lastPut,  \* history: for each resident key, the value of the last put
              \* of that key (None for a key that is not resident)
    hist,     \* history: under SpecSeq, the whole call sequence since the
              \* construction; not recorded (Untracked) under Spec
    call,     \* geoprint: the function called and its arguments
    result,   \* geoprint: what the call returned or raised (once done)
    rpc       \* net/client.py: the state of one Method or Promise, of its
              \* socket and of the messages in flight

vars == <<limit, self, _list, op, ret, pre, lastPut, hist, call, result, rpc>>

----------------------------------------------------------------------------
(* Bounds *)

NumKeys  == 3   \* keys are 1..NumKeys
MaxLimit == 3   \* limit is drawn from 1..MaxLimit
MaxItems == 2   \* length of the items sequence given to the constructor
MaxList  == 3   \* calls that would grow _list beyond this are not explored

Keys   == 1..NumKeys
Values == {"v1", "v2"}
None   == "None"
Default == "default"

----------------------------------------------------------------------------
(* Python list and dict primitives *)

Range(l) == {l[i] : i \in 1..Len(l)}

\* index of the first occurrence of x in l (x is in l)
IndexOf(l, x) == CHOOSE i \in 1..Len(l) : l[i] = x /\ \A j \in 1..(i-1) : l[j] # x

\* list.remove(x): drops the first occurrence of x (x is in l)
ListRemove(l, x) ==
    LET i == IndexOf(l, x)
    IN  SubSeq(l, 1, i-1) \o SubSeq(l, i+1, Len(l))

\* dict.__delitem__ / the removal half of dict.pop
DictRemove(d, k) == [x \in (DOMAIN d) \ {k} |-> d[x]]

\* dict.__setitem__
DictSet(d, k, v) == [x \in (DOMAIN d) \cup {k} |-> IF x = k THEN v ELSE d[x]]

\* the pairs dict.popitem() may return: any pair of the hash table
DictPopitemChoices(d) == DOMAIN d

EmptyDict == [x \in {} |-> None]

\* an outcome of a call: the object's state after it, the exception raised
\* ("none" when it returned) and the value returned
Outcome(d, l, exc, val) == [self |-> d, _list |-> l, exc |-> exc, val |-> val]

----------------------------------------------------------------------------
(* OrderedDict *)

\* OrderedDict.__setitem__(key, object)
OrderedDict_setitem(d, l, key, object) ==
    LET l2 == IF key \notin DOMAIN d THEN Append(l, key) ELSE l
    IN  Outcome(DictSet(d, key, object), l2, "none", None)

\* OrderedDict.popitem(): dict.popitem(self), then _list.remove(item[0])
OrderedDict_popitem(d, l) ==
    IF DOMAIN d = {}
    THEN {Outcome(d, l, "KeyError", None)}
    ELSE {IF k \in Range(l)
          THEN Outcome(DictRemove(d, k), ListRemove(l, k), "none", <<k, d[k]>>)
          ELSE Outcome(DictRemove(d, k), l, "ValueError", None)
          : k \in DictPopitemChoices(d)}

\* OrderedDict.__delitem__(key): dict.__delitem__, then _list.remove(key)
OrderedDict_delitem(d, l, key) ==
    IF key \notin DOMAIN d
    THEN Outcome(d, l, "KeyError", None)
    ELSE IF key \in Range(l)
         THEN Outcome(DictRemove(d, key), ListRemove(l, key), "none", None)
         ELSE Outcome(DictRemove(d, key), l, "ValueError", None)

\* OrderedDict.pop(key, *default); hasDefault says whether a default is given
OrderedDict_pop(d, l, key, hasDefault) ==
    LET present == key \in DOMAIN d
    IN  IF ~present
        THEN IF hasDefault
             THEN Outcome(d, l, "none", Default)
             ELSE Outcome(d, l, "KeyError", None)
        ELSE IF key \in Range(l)
             THEN Outcome(DictRemove(d, key), ListRemove(l, key), "none", d[key])
             ELSE Outcome(DictRemove(d, key), l, "ValueError", None)

----------------------------------------------------------------------------
(* LRUDict *)

\* mutant: __setitem__ testing len(self) > self.limit
LRUDict_setitem_gt(lim, d, l, key, value) ==
    IF Cardinality(DOMAIN d) > lim
    THEN {IF o.exc # "none"
          THEN o
          ELSE OrderedDict_setitem(o.self, o._list, key, value)
          : o \in OrderedDict_popitem(d, l)}
    ELSE {OrderedDict_setitem(d, l, key, value)}

\* mutant: __setitem__ testing len(self) >= self.limit - 1
LRUDict_setitem_early(lim, d, l, key, value) ==
    IF Cardinality(DOMAIN d) >= lim - 1
    THEN {IF o.exc # "none"
          THEN o
          ELSE OrderedDict_setitem(o.self, o._list, key, value)
          : o \in OrderedDict_popitem(d, l)}
    ELSE {OrderedDict_setitem(d, l, key, value)}

\* LRUDict.__setitem__(key, value) under limit lim: the set of outcomes
LRUDict_setitem(lim, d, l, key, value) ==
    IF Cardinality(DOMAIN d) >= lim
    THEN {IF o.exc # "none"
          THEN o
          ELSE OrderedDict_setitem(o.self, o._list, key, value)
          : o \in OrderedDict_popitem(d, l)}
    ELSE {OrderedDict_setitem(d, l, key, value)}

\* mutant: __getitem__ as a plain dict lookup, without the re-insertion
LRUDict_getitem_plain(lim, d, l, key) ==
    IF key \notin DOMAIN d
    THEN {Outcome(d, l, "KeyError", None)}
    ELSE {Outcome(d, l, "none", d[key])}

\* mutant: __getitem__ re-inserting the item without popping the key first
LRUDict_getitem_nopop(lim, d, l, key) ==
    IF key \notin DOMAIN d
    THEN {Outcome(d, l, "KeyError", None)}
    ELSE LET item == d[key]
         IN  {IF o.exc # "none" THEN o ELSE [o EXCEPT !.val = item]
              : o \in LRUDict_setitem(lim, d, l, key, item)}

\* LRUDict.__getitem__(key): item = dict.pop(self, key); self[key] = item
LRUDict_getitem(lim, d, l, key) ==
    IF key \notin DOMAIN d
    THEN {Outcome(d, l, "KeyError", None)}
    ELSE LET item == d[key]
         IN  {IF o.exc # "none" THEN o ELSE [o EXCEPT !.val = item]
              : o \in LRUDict_setitem(lim, DictRemove(d, key), l, key, item)}

\* mutant: get without the try/except
LRUDict_get_nocatch(lim, d, l, key) == LRUDict_getitem(lim, d, l, key)

\* LRUDict.get(key, default): self[key], a KeyError turned into the default
LRUDict_get(lim, d, l, key) ==
    {IF o.exc = "KeyError" THEN [o EXCEPT !.exc = "none", !.val = Default] ELSE o
     : o \in LRUDict_getitem(lim, d, l, key)}

\* OrderedDict.update(items) as LRUDict.__init__ calls it: self[key] = value
\* for each pair in turn; a set of outcomes
RECURSIVE OrderedDict_update(_, _, _, _)
OrderedDict_update(lim, d, l, items) ==
    IF items = <<>>
    THEN {Outcome(d, l, "none", None)}
    ELSE UNION {IF o.exc # "none"
                THEN {o}
                ELSE OrderedDict_update(lim, o.self, o._list, Tail(items))
                : o \in LRUDict_setitem(lim, d, l, items[1][1], items[1][2])}

----------------------------------------------------------------------------
(* Enumeration of an LRUDict: OrderedDict.values and OrderedDict.items,    *)
(* whose self[key] is LRUDict.__getitem__                                  *)

\* [self[key] for key in self._list] from index i on, acc collected so far.
\* The iteration runs over the list that self[key] appends to.  n0 is the
\* length the list had at the call: past it every key met was re-inserted
\* by this very loop, so no KeyError can end it any more and the list grows
\* until memory is exhausted; the model stops there, with the list as long
\* as it is by then.
RECURSIVE ValuesLoop(_, _, _, _, _, _)
ValuesLoop(lim, d, l, i, acc, n0) ==
    IF i > Len(l) THEN {Outcome(d, l, "none", acc)}
    ELSE IF i > n0 THEN {Outcome(d, l, "MemoryError", None)}
    ELSE UNION {IF o.exc # "none"
                THEN {o}
                ELSE ValuesLoop(lim, o.self, o._list, i + 1,
                                Append(acc, o.val), n0)
                : o \in LRUDict_getitem(lim, d, l, l[i])}

\* OrderedDict.values() on an LRUDict: the set of outcomes
OrderedDict_values(lim, d, l) == ValuesLoop(lim, d, l, 1, <<>>, Len(l))

\* [(key, self[key]) for key in keys], keys being what is left of the copy
\* self.keys() returned
RECURSIVE ItemsLoop(_, _, _, _, _)
ItemsLoop(lim, d, l, keys, acc) ==
    IF keys = <<>> THEN {Outcome(d, l, "none", acc)}
    ELSE UNION {IF o.exc # "none"
                THEN {o}
                ELSE ItemsLoop(lim, o.self, o._list, Tail(keys),
                               Append(acc, <<Head(keys), o.val>>))
                : o \in LRUDict_getitem(lim, d, l, Head(keys))}

\* OrderedDict.items() on an LRUDict: the set of outcomes
OrderedDict_items(lim, d, l) == ItemsLoop(lim, d, l, l, <<>>)

----------------------------------------------------------------------------
(* The state machine: one action per public call on a constructed LRUDict *)

Untracked == <<"untracked">>

\* under Spec and SpecSeq no geoprint function is called
NoCall   == [fn |-> "none"]
NoResult == [done |-> FALSE]

\* under Spec, SpecSeq, SpecGeo and SpecVec there is no RPC client
NoRpc == [pc |-> "none"]

ItemSeqs == UNION {[1..n -> Keys \X Values] : n \in 0..MaxItems}

\* the value of the last pair of items whose key is k (None without one)
RECURSIVE LastValue(_, _)
LastValue(items, k) ==
    IF items = <<>> THEN None
    ELSE IF items[Len(items)][1] = k THEN items[Len(items)][2]
    ELSE LastValue(SubSeq(items, 1, Len(items) - 1), k)

\* LRUDict.__init__(items, limit)
Construct(items, h) ==
    /\ limit \in 1..MaxLimit
    /\ \E o \in OrderedDict_update(limit, EmptyDict, <<>>, items) :
            /\ o.exc = "none"
            /\ self = o.self
            /\ _list = o._list
            /\ lastPut = [k \in Keys |-> IF k \in DOMAIN o.self
                                         THEN LastValue(items, k) ELSE None]
    /\ op = [name |-> "init", key |-> None, value |-> None]
    /\ ret = [exc |-> "none", val |-> None]
    /\ pre = [self |-> EmptyDict, _list |-> <<>>]
    /\ hist = h
    /\ call = NoCall
    /\ result = NoResult
    /\ rpc = NoRpc

Init == \E items \in ItemSeqs : Construct(items, Untracked)

\* the effect of a completed call with outcome o
Apply(o, name, key, value, h) ==
    /\ Len(o._list) <= MaxList
    /\ self' = o.self
    /\ _list' = o._list
    /\ op' = [name |-> name, key |-> key, value |-> value]
    /\ ret' = [exc |-> o.exc, val |-> o.val]
    /\ pre' = [self |-> self, _list |-> _list]
    /\ lastPut' = [k \in Keys |->
                     IF k \notin DOMAIN o.self THEN None
                     ELSE IF name = "put" /\ k = key THEN value
                     ELSE lastPut[k]]
    /\ hist' = h
    /\ UNCHANGED <<limit, call, result, rpc>>

\* cache[key] = value
SetItem ==
    \E key \in Keys, value \in Values :
      \E o \in LRUDict_setitem(limit, self, _list, key, value) :
        Apply(o, "put", key, value, hist)

\* cache[key]
GetItem ==
    \E key \in Keys :
      \E o \in LRUDict_getitem(limit, self, _list, key) :
        Apply(o, "getitem", key, None, hist)

\* cache.get(key, default)
Get ==
    \E key \in Keys :
      \E o \in LRUDict_get(limit, self, _list, key) :
        Apply(o, "get", key, None, hist)

\* cache.popitem()
PopItem ==
    \E o \in OrderedDict_popitem(self, _list) :
        Apply(o, "popitem", None, None, hist)

\* del cache[key]
DelItem ==
    \E key \in Keys :
      \E o \in {OrderedDict_delitem(self, _list, key)} :
        Apply(o, "delitem", key, None, hist)

\* cache.pop(key) and cache.pop(key, default)
Pop ==
    \E key \in Keys, hasDefault \in BOOLEAN :
      \E o \in {OrderedDict_pop(self, _list, key, hasDefault)} :
        Apply(o, IF hasDefault THEN "pop_default" ELSE "pop", key, None, hist)

Next == SetItem \/ GetItem \/ Get \/ PopItem \/ DelItem \/ Pop

Spec == Init /\ [][Next]_vars

----------------------------------------------------------------------------
(* The calls of Spec together with the two enumerations.  An enumeration   *)
(* is explored from the states whose _list is within MaxList and may      *)
(* leave it longer; the calls that follow are explored as far as they      *)
(* bring it back within MaxList.                                           *)

\* the effect of a completed enumeration with outcome o
ApplyEnum(o, name) ==
    /\ self' = o.self
    /\ _list' = o._list
    /\ op' = [name |-> name, key |-> None, value |-> None]
    /\ ret' = [exc |-> o.exc, val |-> o.val]
    /\ pre' = [self |-> self, _list |-> _list]
    /\ lastPut' = [k \in Keys |-> IF k \notin DOMAIN o.self THEN None
                                                            ELSE lastPut[k]]
    /\ UNCHANGED <<limit, hist, call, result, rpc>>

\* cache.values()
ValuesCall ==
    /\ Len(_list) <= MaxList
    /\ \E o \in OrderedDict_values(limit, self, _list) :
          ApplyEnum(o, "values")

\* cache.items()
ItemsCall ==
    /\ Len(_list) <= MaxList
    /\ \E o \in OrderedDict_items(limit, self, _list) :
          ApplyEnum(o, "items")

NextEnum ==
    \/ SetItem
    \/ GetItem
    \/ Get
    \/ PopItem
    \/ DelItem
    \/ Pop
    \/ ValuesCall
    \/ ItemsCall

SpecEnum == Init /\ [][NextEnum]_vars

----------------------------------------------------------------------------
(* Call sequences: an LRUDict constructed empty, then puts and cache[k]    *)
(* reads, each recorded in hist; limit + 2 calls are followed.             *)

InitSeq == Construct(<<>>, <<>>)

\* cache[key] = value, recorded
SeqSetItem ==
    /\ Len(hist) < limit + 2
    /\ \E key \in Keys, value \in Values :
         \E o \in LRUDict_setitem(limit, self, _list, key, value) :
           Apply(o, "put", key, value, Append(hist, <<"put", key, value>>))

\* cache[key], recorded with the value returned
SeqGetItem ==
    /\ Len(hist) < limit + 2
    /\ \E key \in Keys :
         \E o \in LRUDict_getitem(limit, self, _list, key) :
           Apply(o, "getitem", key, None, Append(hist, <<"get", key, o.val>>))

NextSeq == SeqSetItem \/ SeqGetItem

SpecSeq == InitSeq /\ [][NextSeq]_vars

----------------------------------------------------------------------------
(* geoprint (xodb/tools/geoprint.py): quadtree codes of a point.           *)
(*                                                                         *)
(* Coordinates are counted in units of 90/2^MaxPrec degrees.  Every        *)
(* interval bound, midpoint, error and spacing the code computes for a     *)
(* geoprint of at most MaxPrec characters is a whole number of units, the  *)
(* floats that hold them are exact, and so is the integer arithmetic here. *)

MaxPrec == 4   \* geoprints have at most MaxPrec characters

LatMax == 2^MaxPrec    \* 90.0 degrees
LonMax == 2 * LatMax   \* 180.0 degrees

interval(min, max) == [min |-> min, max |-> max]

alphabet == <<"g", "a", "t", "c">>

\* decodemap[c]: the position of c in the alphabet, from 0
decodemap(c) == (CHOOSE i \in 1..Len(alphabet) : alphabet[i] = c) - 1

\* n & b for a single bit b
BitAnd(n, b) == ((n \div b) % 2) * b

\* one pass of encode's while loop: prepends after the hemisphere instead
\* of appending
EncodeStep_insert(st, latitude, longitude) ==
    LET lonmid == (st.loni.min + st.loni.max) \div 2
        latmid == (st.lati.min + st.lati.max) \div 2
        ch == (IF longitude > lonmid THEN 2 ELSE 0)
              + (IF latitude > latmid THEN 1 ELSE 0)
    IN  [geoprint |-> <<Head(st.geoprint), alphabet[ch + 1]>>
                        \o Tail(st.geoprint),
         loni |-> IF longitude > lonmid THEN interval(lonmid, st.loni.max)
                                        ELSE interval(st.loni.min, lonmid),
         lati |-> IF latitude > latmid THEN interval(latmid, st.lati.max)
                                       ELSE interval(st.lati.min, latmid)]

\* one pass of encode's while loop
EncodeStep(st, latitude, longitude) ==
    LET lonmid == (st.loni.min + st.loni.max) \div 2
        latmid == (st.lati.min + st.lati.max) \div 2
        ch == (IF longitude > lonmid THEN 2 ELSE 0)
              + (IF latitude > latmid THEN 1 ELSE 0)
    IN  [geoprint |-> Append(st.geoprint, alphabet[ch + 1]),
         loni |-> IF longitude > lonmid THEN interval(lonmid, st.loni.max)
                                        ELSE interval(st.loni.min, lonmid),
         lati |-> IF latitude > latmid THEN interval(latmid, st.lati.max)
                                       ELSE interval(st.lati.min, latmid)]

\* while len(geoprint) < precision
RECURSIVE EncodeLoop(_, _, _, _)
EncodeLoop(st, latitude, longitude, precision) ==
    IF Len(st.geoprint) < precision
    THEN EncodeLoop(EncodeStep(st, latitude, longitude),
                    latitude, longitude, precision)
    ELSE st

\* encode taking longitude 0 for the western hemisphere
encode_le(latitude, longitude, precision) ==
    LET st == IF longitude <= 0
              THEN [geoprint |-> <<"w">>, loni |-> interval(-LonMax, 0),
                    lati |-> interval(-LatMax, LatMax)]
              ELSE [geoprint |-> <<"e">>, loni |-> interval(0, LonMax),
                    lati |-> interval(-LatMax, LatMax)]
    IN  EncodeLoop(st, latitude, longitude, precision).geoprint

\* encode(latitude, longitude, precision), in degrees, box=False
encode(latitude, longitude, precision) ==
    LET st == IF longitude < 0
              THEN [geoprint |-> <<"w">>, loni |-> interval(-LonMax, 0),
                    lati |-> interval(-LatMax, LatMax)]
              ELSE [geoprint |-> <<"e">>, loni |-> interval(0, LonMax),
                    lati |-> interval(-LatMax, LatMax)]
    IN  EncodeLoop(st, latitude, longitude, precision).geoprint

\* one pass of decode's for loop that leaves the cell as it is on 'g'
DecodeStep_skip(st, c) ==
    LET cd == decodemap(c)
        lonmid == (st.loni.min + st.loni.max) \div 2
        latmid == (st.lati.min + st.lati.max) \div 2
    IN  IF cd = 0 THEN st
        ELSE [loni |-> IF BitAnd(cd, 2) # 0
                       THEN interval(lonmid, st.loni.max)
                       ELSE interval(st.loni.min, lonmid),
              lati |-> IF BitAnd(cd, 1) # 0
                       THEN interval(latmid, st.lati.max)
                       ELSE interval(st.lati.min, latmid)]

\* one pass of decode's for loop
DecodeStep(st, c) ==
    LET cd == decodemap(c)
        lonmid == (st.loni.min + st.loni.max) \div 2
        latmid == (st.lati.min + st.lati.max) \div 2
    IN  [loni |-> IF BitAnd(cd, 2) # 0 THEN interval(lonmid, st.loni.max)
                                       ELSE interval(st.loni.min, lonmid),
         lati |-> IF BitAnd(cd, 1) # 0 THEN interval(latmid, st.lati.max)
                                       ELSE interval(st.lati.min, latmid)]

\* for c in geoprint
RECURSIVE DecodeLoop(_, _)
DecodeLoop(st, geoprint) ==
    IF geoprint = <<>> THEN st
    ELSE DecodeLoop(DecodeStep(st, Head(geoprint)), Tail(geoprint))

\* the intervals decode ends with (geoprint starts with 'w' or 'e')
DecodeIntervals(geoprint) ==
    LET st == [lati |-> interval(-LatMax, LatMax),
               loni |-> IF Head(geoprint) = "w" THEN interval(-LonMax, 0)
                                                ELSE interval(0, LonMax)]
    IN  DecodeLoop(st, Tail(geoprint))

\* decode(geoprint): the centre (lat, lon) of the cell
decode(geoprint) ==
    LET st == DecodeIntervals(geoprint)
    IN  <<(st.lati.min + st.lati.max) \div 2,
          (st.loni.min + st.loni.max) \div 2>>

\* decode(geoprint, box=True): the rest of the code and the two corners
decode_box(geoprint) ==
    LET st == DecodeIntervals(geoprint)
    IN  <<Tail(geoprint), <<st.lati.min, st.loni.min>>,
                          <<st.lati.max, st.loni.max>>>>

\* error with the exponent len(geoprint)
error_len(geoprint) == LatMax \div 2^Len(geoprint)

\* error(geoprint) = 90.0 * 2^-(len(geoprint) - 1)
error(geoprint) == LatMax \div 2^(Len(geoprint) - 1)

\* 180 / 2.0 ** (precision - 1)
Spacing(precision) == LonMax \div 2^(precision - 1)

\* the labels in the order that would match the compass
dirs_compass == <<"E", "W", "N", "NE", "NW", "S", "SE", "SW">>

dirs == <<"N", "S", "E", "NE", "SE", "W", "NW", "SW">>

\* the (direction_lat, direction_long) pairs in the order neighbors' two
\* loops reach them, (0, 0) skipped
Directions ==
    LET d == <<0, 1, -1>>
        all == [n \in 1..(Len(d) * Len(d)) |->
                    <<d[((n - 1) \div Len(d)) + 1], d[((n - 1) % Len(d)) + 1]>>]
    IN  SelectSeq(all, LAMBDA p : ~(p[1] = 0 /\ p[2] = 0))

\* neighbors(geoprint), bearing=True: a set of (bearing, geoprint) pairs
neighbors(geoprint) ==
    LET precision == Len(geoprint)
        spacing == Spacing(precision)
        ctr == decode(geoprint)
    IN  { <<dirs[i], encode(ctr[1] + Directions[i][1] * spacing,
                            ctr[2] + Directions[i][2] * spacing,
                            precision)>> : i \in 1..Len(Directions) }

Abs(x) == IF x < 0 THEN -x ELSE x
Min(a, b) == IF a < b THEN a ELSE b

\* the comparison adjacent ends with
Touching(first, second) ==
    LET c1 == decode(first)
        c2 == decode(second)
        spacing == Spacing(Len(first))
    IN  \/ Abs(c1[1] - c2[1]) = spacing /\ c1[2] = c2[2]
        \/ Abs(c1[2] - c2[2]) = spacing /\ c1[1] = c2[1]
        \/ Abs(c1[1] - c2[1]) = spacing /\ Abs(c1[2] - c2[2]) = spacing

GeoReturn(val) == [done |-> TRUE, exc |-> "none", val |-> val]
GeoRaise(exc)  == [done |-> TRUE, exc |-> exc, val |-> None]

\* adjacent without the diagonal case
adjacent_nodiag(first, second) ==
    IF first = second THEN GeoReturn(FALSE)
    ELSE IF Min(Len(first), Len(second)) < 3 THEN GeoRaise("TypeError")
    ELSE IF Len(first) # Len(second) THEN GeoRaise("TypeError")
    ELSE LET c1 == decode(first)
             c2 == decode(second)
             spacing == Spacing(Len(first))
         IN  GeoReturn(\/ Abs(c1[1] - c2[1]) = spacing /\ c1[2] = c2[2]
                       \/ Abs(c1[2] - c2[2]) = spacing /\ c1[1] = c2[1])

\* adjacent without the test for equal lengths
adjacent_anylen(first, second) ==
    IF first = second THEN GeoReturn(FALSE)
    ELSE IF Min(Len(first), Len(second)) < 3 THEN GeoRaise("TypeError")
    ELSE GeoReturn(Touching(first, second))

\* adjacent with the length tests ahead of the equality test
adjacent_lenfirst(first, second) ==
    IF Min(Len(first), Len(second)) < 3 THEN GeoRaise("TypeError")
    ELSE IF Len(first) # Len(second) THEN GeoRaise("TypeError")
    ELSE IF first = second THEN GeoReturn(FALSE)
    ELSE GeoReturn(Touching(first, second))

\* adjacent comparing the signed differences with the spacing
adjacent_noabs(first, second) ==
    IF first = second THEN GeoReturn(FALSE)
    ELSE IF Min(Len(first), Len(second)) < 3 THEN GeoRaise("TypeError")
    ELSE IF Len(first) # Len(second) THEN GeoRaise("TypeError")
    ELSE LET c1 == decode(first)
             c2 == decode(second)
             spacing == Spacing(Len(first))
         IN  GeoReturn(\/ c1[1] - c2[1] = spacing /\ c1[2] = c2[2]
                       \/ c1[2] - c2[2] = spacing /\ c1[1] = c2[1]
                       \/ c1[1] - c2[1] = spacing /\ c1[2] - c2[2] = spacing)

\* adjacent(first, second)
adjacent(first, second) ==
    IF first = second THEN GeoReturn(FALSE)
    ELSE IF Min(Len(first), Len(second)) < 3 THEN GeoRaise("TypeError")
    ELSE IF Len(first) # Len(second) THEN GeoRaise("TypeError")
    ELSE GeoReturn(Touching(first, second))

----------------------------------------------------------------------------
(* The geoprint functions are pure: a call is drawn at the start, and the  *)
(* one step of a behaviour is its completion.  No cache is involved.       *)

\* the well-formed geoprints of 1..MaxPrec characters
Geoprints ==
    {<<h>> \o t : h \in {"w", "e"},
                  t \in UNION {[1..n -> Range(alphabet)] : n \in 0..(MaxPrec - 1)}}

NoCache ==
    /\ limit = 0
    /\ self = EmptyDict
    /\ _list = <<>>
    /\ op = [name |-> "none", key |-> None, value |-> None]
    /\ ret = [exc |-> "none", val |-> None]
    /\ pre = [self |-> EmptyDict, _list |-> <<>>]
    /\ lastPut = [k \in Keys |-> None]
    /\ hist = Untracked

InitGeo ==
    /\ NoCache
    /\ result = NoResult
    /\ rpc = NoRpc
    /\ \/ \E latitude \in (-LatMax)..LatMax, longitude \in (-LonMax)..LonMax,
            precision \in 1..MaxPrec :
              call = [fn |-> "encode", latitude |-> latitude,
                      longitude |-> longitude, precision |-> precision]
       \/ \E geoprint \in Geoprints, box \in BOOLEAN :
              call = [fn |-> "decode", geoprint |-> geoprint, box |-> box]
       \/ \E fn \in {"error", "neighbors"}, geoprint \in Geoprints :
              call = [fn |-> fn, geoprint |-> geoprint]
       \/ \E first \in Geoprints, second \in Geoprints :
              call = [fn |-> "adjacent", first |-> first, second |-> second]

\* the call returns or raises: r is its outcome
Complete(r) ==
    /\ ~result.done
    /\ result' = r
    /\ UNCHANGED <<limit, self, _list, op, ret, pre, lastPut, hist, call, rpc>>

GeoEncode ==
    /\ call.fn = "encode"
    /\ Complete(GeoReturn(encode(call.latitude, call.longitude,
                                 call.precision)))

GeoDecode ==
    /\ call.fn = "decode"
    /\ Complete(GeoReturn(IF call.box THEN decode_box(call.geoprint)
                                      ELSE decode(call.geoprint)))

GeoError ==
    /\ call.fn = "error"
    /\ Complete(GeoReturn(error(call.geoprint)))

GeoNeighbors ==
    /\ call.fn = "neighbors"
    /\ Complete(GeoReturn(neighbors(call.geoprint)))

GeoAdjacent ==
    /\ call.fn = "adjacent"
    /\ Complete(adjacent(call.first, call.second))

NextGeo == GeoEncode \/ GeoDecode \/ GeoError \/ GeoNeighbors \/ GeoAdjacent

SpecGeo == InitGeo /\ [][NextGeo]_vars

----------------------------------------------------------------------------
(* The RPC client (xodb/net/client.py): one Method or Promise of a Client, *)
(* its REQ socket, and the server at the other end, which answers a        *)
(* request at any time or never.  The client's steps are cut at its polls. *)

MaxRetry == 3   \* retry_limit is drawn from 0..MaxRetry

Replies == {"r1", "r2"}

\* rpc once the Method or Promise has been made by Client.__getattr__
NewRpc(kind, retry_limit) ==
    [pc |-> "call", kind |-> kind, retry_limit |-> retry_limit, tries |-> 0,
     sends |-> 0,      \* requests sent
     connects |-> 0,   \* sockets connected
     closed |-> FALSE, \* the socket has been closed
     wire |-> 0,       \* requests the server has not answered
     inbox |-> None,   \* the reply waiting on the socket
     outcome |-> "none", val |-> None]

InitRpc ==
    /\ NoCache
    /\ call = NoCall
    /\ result = NoResult
    /\ \E kind \in {"Method", "Promise"}, retry_limit \in 0..MaxRetry :
          rpc = NewRpc(kind, retry_limit)

\* Method.__call__ up to its first poll, Promise.__call__ whole: the socket
\* is made and connected on first use, and the request is sent
RpcCall ==
    /\ rpc.pc = "call"
    /\ rpc' = [rpc EXCEPT !.pc = IF rpc.kind = "Method" THEN "poll"
                                                        ELSE "promised",
                          !.connects = @ + 1,
                          !.sends = @ + 1,
                          !.wire = @ + 1,
                          !.tries = 0]
    /\ UNCHANGED <<limit, self, _list, op, ret, pre, lastPut, hist, call,
                   result>>

\* Promise.value is read: tries = 0
RpcValue ==
    /\ rpc.pc = "promised"
    /\ rpc' = [rpc EXCEPT !.pc = "poll", !.tries = 0]
    /\ UNCHANGED <<limit, self, _list, op, ret, pre, lastPut, hist, call,
                   result>>

\* the server answers the request
ServerReply ==
    /\ rpc.pc \in {"promised", "poll"}
    /\ rpc.wire > 0
    /\ rpc.inbox = None
    /\ \E r \in Replies :
          rpc' = [rpc EXCEPT !.wire = @ - 1, !.inbox = r]
    /\ UNCHANGED <<limit, self, _list, op, ret, pre, lastPut, hist, call,
                   result>>

\* a pass of the while loop whose poll finds the reply: it is returned, and
\* the finally clause closes the socket
RpcPollReply ==
    /\ rpc.pc = "poll"
    /\ rpc.tries < rpc.retry_limit
    /\ rpc.inbox # None
    /\ rpc' = [rpc EXCEPT !.pc = "done", !.outcome = "return",
                          !.val = rpc.inbox, !.inbox = None,
                          !.closed = TRUE]
    /\ UNCHANGED <<limit, self, _list, op, ret, pre, lastPut, hist, call,
                   result>>

\* a pass of the while loop whose poll times out: tries += 1, sleep
RpcPollTimeout ==
    /\ rpc.pc = "poll"
    /\ rpc.tries < rpc.retry_limit
    /\ rpc.inbox = None
    /\ rpc' = [rpc EXCEPT !.tries = @ + 1]
    /\ UNCHANGED <<limit, self, _list, op, ret, pre, lastPut, hist, call,
                   result>>

\* the else clause of the while loop: TimeoutError, and the finally clause
\* closes the socket
RpcTimeoutError ==
    /\ rpc.pc = "poll"
    /\ rpc.tries >= rpc.retry_limit
    /\ rpc' = [rpc EXCEPT !.pc = "done", !.outcome = "TimeoutError",
                          !.closed = TRUE]
    /\ UNCHANGED <<limit, self, _list, op, ret, pre, lastPut, hist, call,
                   result>>

NextRpc ==
    \/ RpcCall
    \/ RpcValue
    \/ ServerReply
    \/ RpcPollReply
    \/ RpcPollTimeout
    \/ RpcTimeoutError

SpecRpc == InitRpc /\ [][NextRpc]_vars

----------------------------------------------------------------------------
(* Properties *)

Size(d) == Cardinality(DOMAIN d)
Last(l) == l[Len(l)]

\* l without every occurrence of k: the order of the other keys
Others(l, k) == SelectSeq(l, LAMBDA x : x # k)

Returned == ret.exc = "none"
IsPut    == op.name = "put"
IsRead   == op.name \in {"getitem", "get"}
WasResident == op.key \in DOMAIN pre.self

\* hist[i..j] are puts of pairwise distinct keys
DistinctPuts(i, j) ==
    /\ \A n \in i..j : hist[n][1] = "put"
    /\ \A m, n \in i..j : m # n => hist[m][2] # hist[n][2]

HistKeys(i, j) == {hist[n][2] : n \in i..j}

\* C1: LRU eviction order. From an empty cache of limit N, N+1 puts of
\* distinct keys k1..kN+1 leave exactly k2..kN+1 resident.
C1_EvictionOrder ==
    (Len(hist) = limit + 1 /\ DistinctPuts(1, limit + 1))
        => DOMAIN self = HistKeys(2, limit + 1)

\* C2: LRU promotion. From an empty cache of limit N >= 2, puts of distinct
\* k1..kN, then cache[k1], then a put of a new key leave k1, k3..kN and the
\* new key resident: k2 is the one evicted.
C2_ReadProtects ==
    (/\ limit >= 2
     /\ Len(hist) = limit + 2
     /\ DistinctPuts(1, limit)
     /\ hist[limit + 1][1] = "get" /\ hist[limit + 1][2] = hist[1][2]
     /\ hist[limit + 2][1] = "put" /\ hist[limit + 2][2] \notin HistKeys(1, limit))
        => DOMAIN self = (HistKeys(1, limit) \ {hist[2][2]}) \cup {hist[limit + 2][2]}

\* C3: the order list holds exactly the resident keys, each exactly once.
C3_ListInSync ==
    /\ Range(_list) = DOMAIN self
    /\ Len(_list) = Size(self)

\* C4: the number of resident entries never exceeds limit.
C4_CapacityBound == Size(self) <= limit

\* a put of a new key into a full cache has just evicted an entry
C4_Witness ==
    /\ IsPut /\ Returned /\ ~WasResident
    /\ Size(pre.self) = limit /\ limit >= 2
    /\ Size(self) = limit

\* C5: put(k, v1); put(k, v2): the second put leaves the number of resident
\* entries unchanged and evicts no other key, and a cache[k] that follows
\* returns v2.
C5_IdempotentReplace ==
    LET n == Len(hist)
    IN  /\ (n >= 2 /\ hist[n][1] = "put" /\ hist[n-1][1] = "put"
               /\ hist[n][2] = hist[n-1][2])
            => /\ Size(self) = Size(pre.self)
               /\ DOMAIN pre.self \subseteq DOMAIN self
        /\ (n >= 3 /\ hist[n][1] = "get" /\ hist[n-1][1] = "put"
               /\ hist[n-2][1] = "put"
               /\ hist[n][2] = hist[n-1][2] /\ hist[n-1][2] = hist[n-2][2])
            => /\ Returned
               /\ hist[n][3] = hist[n-1][3]

\* C6: a put of a resident key replaces its value and makes the key the last
\* element of the key order, the order of the other keys staying as it was.
C6_ReinsertPromotes ==
    (IsPut /\ WasResident)
        => /\ Returned
           /\ op.key \in DOMAIN self /\ self[op.key] = op.value
           /\ _list # <<>> /\ Last(_list) = op.key
           /\ Others(_list, op.key) = Others(pre._list, op.key)

\* C7: a put of a key that is not resident evicts nothing below the limit and
\* exactly one resident entry at the limit; the new key is resident with the
\* given value and every entry that stays keeps its value.
C7_EvictionCount ==
    (IsPut /\ ~WasResident)
        => LET evicted == (DOMAIN pre.self) \ (DOMAIN self)
           IN  /\ Returned
               /\ op.key \in DOMAIN self /\ self[op.key] = op.value
               /\ Size(pre.self) < limit => evicted = {}
               /\ Size(pre.self) = limit => Cardinality(evicted) = 1
               /\ \A k \in (DOMAIN self) \ {op.key} :
                     k \in DOMAIN pre.self /\ self[k] = pre.self[k]

\* a new key has been put into a full cache that held two other keys
C7_Witness ==
    /\ IsPut /\ Returned /\ ~WasResident
    /\ Size(pre.self) = limit /\ limit >= 2
    /\ Cardinality((DOMAIN pre.self) \ (DOMAIN self)) = 1

C9_Miss ==
    (IsRead /\ ~WasResident)
        => /\ op.name = "getitem" => ret.exc = "KeyError"
           /\ op.name = "get" => (Returned /\ ret.val = Default)
           /\ self = pre.self
           /\ _list = pre._list

\* cache.get of an absent key on a cache that holds other keys
C9_Witness ==
    /\ op.name = "get" /\ ~WasResident
    /\ ret.val = Default
    /\ Size(self) >= 2

\* C10: popitem() on a non-empty cache removes and returns the entry whose
\* key is the first element of the key order, and leaves the others.
C10_PopOldest ==
    (op.name = "popitem" /\ pre.self # EmptyDict)
        => LET k == pre._list[1]
           IN  /\ Returned
               /\ k \in DOMAIN pre.self
               /\ ret.val = <<k, pre.self[k]>>
               /\ self = DictRemove(pre.self, k)

\* C11: popitem() on a cache with no entries raises an error and leaves the
\* map and the key order empty.
C11_PopEmpty ==
    (op.name = "popitem" /\ pre.self = EmptyDict)
        => /\ ret.exc = "KeyError"
           /\ self = EmptyDict
           /\ _list = <<>>

\* C12: after del cache[k] or cache.pop(k, default), whether it returned or
\* raised, k is neither in the map nor in the key order, and the other
\* entries, their values and the order of the other keys are as before;
\* deleting an absent key changes nothing.
C12_Delete ==
    (op.name \in {"delitem", "pop_default"})
        => /\ op.key \notin DOMAIN self
           /\ op.key \notin Range(_list)
           /\ self = DictRemove(pre.self, op.key)
           /\ Others(_list, op.key) = Others(pre._list, op.key)
           /\ ~WasResident => (self = pre.self /\ _list = pre._list)

----------------------------------------------------------------------------
(* encode at its default precision, on points given in degrees with six    *)
(* decimals.  Such a point is held in millionths of a degree, and inside   *)
(* the loop as its offset from the lower end of the current interval,      *)
(* counted in units that make the interval FullWidth units wide: then      *)
(* "coordinate > mid" is "2 * offset > FullWidth", and halving the         *)
(* interval doubles the offset (less FullWidth for the upper half).  The   *)
(* midpoints are dyadic multiples of 180, exact as floats, and no point    *)
(* used here is within a float rounding of one of them.                    *)

DefaultPrecision == 22

Degree == 10^6               \* one degree, in millionths
FullWidth == 180 * Degree    \* the width of the starting intervals

\* one pass of encode's while loop with the two bits exchanged
EncodeStepRel_swap(st) ==
    LET east == 2 * st.lon > FullWidth
        north == 2 * st.lat > FullWidth
        ch == (IF east THEN 1 ELSE 0) + (IF north THEN 2 ELSE 0)
    IN  [geoprint |-> Append(st.geoprint, alphabet[ch + 1]),
         lon |-> IF east THEN 2 * st.lon - FullWidth ELSE 2 * st.lon,
         lat |-> IF north THEN 2 * st.lat - FullWidth ELSE 2 * st.lat]

\* one pass of encode's while loop, on offsets
EncodeStepRel(st) ==
    LET east == 2 * st.lon > FullWidth
        north == 2 * st.lat > FullWidth
        ch == (IF east THEN 2 ELSE 0) + (IF north THEN 1 ELSE 0)
    IN  [geoprint |-> Append(st.geoprint, alphabet[ch + 1]),
         lon |-> IF east THEN 2 * st.lon - FullWidth ELSE 2 * st.lon,
         lat |-> IF north THEN 2 * st.lat - FullWidth ELSE 2 * st.lat]

\* while len(geoprint) < precision
RECURSIVE EncodeLoopRel(_, _)
EncodeLoopRel(st, precision) ==
    IF Len(st.geoprint) < precision
    THEN EncodeLoopRel(EncodeStepRel(st), precision)
    ELSE st

\* encode(latitude, longitude, precision) of an in-range point given in
\* millionths of a degree
encode_micro(latitude, longitude, precision) ==
    LET st == IF longitude < 0
              THEN [geoprint |-> <<"w">>, lon |-> longitude + 180 * Degree,
                    lat |-> latitude + 90 * Degree]
              ELSE [geoprint |-> <<"e">>, lon |-> longitude,
                    lat |-> latitude + 90 * Degree]
    IN  EncodeLoopRel(st, precision).geoprint

\* the points the repository's tests and doctests encode, in millionths of
\* a degree: <<latitude, longitude>>
TestPoints ==
    { <<7062500, -95677068>>, <<51500152, -126236>>, <<-220862, -78510439>>,
      <<74295556, -156766389>>, <<-75850000, 166666667>>,
      <<8062500, -25677068>>, <<9062500, -15677068>>,
      <<10062500, -10677068>> }

InitVec ==
    /\ NoCache
    /\ result = NoResult
    /\ rpc = NoRpc
    /\ \E p \in TestPoints, precision \in 1..DefaultPrecision :
          call = [fn |-> "encode", latitude |-> p[1], longitude |-> p[2],
                  precision |-> precision]

VecEncode ==
    /\ call.fn = "encode"
    /\ Complete(GeoReturn(encode_micro(call.latitude, call.longitude,
                                       call.precision)))

NextVec == VecEncode

SpecVec == InitVec /\ [][NextVec]_vars

\* the two forms of encode agree on every in-range point of SpecGeo
EncodeFormsAgree ==
    (call.fn = "encode" /\ result.done)
        => result.val = encode_micro(call.latitude * ((90 * Degree) \div LatMax),
                                     call.longitude * ((90 * Degree) \div LatMax),
                                     call.precision)

\* C26: after any finite sequence of put, get, popitem and delete on an
\* LRUDict with limit N >= 1, in particular after arbitrarily many
\* successful gets of the same key, the length of the order list (_list /
\* keys()) is at most N.
C26_BoundedList == Len(_list) <= limit

\* C27: on an LRUDict in any reachable state, values() and items()
\* terminate without error and return exactly one value (respectively one
\* (key, value) pair) per resident key, leaving the set of resident entries
\* unchanged.
C27_EnumerationTerminates ==
    (op.name \in {"values", "items"})
        => /\ ret.exc = "none"
           /\ Len(ret.val) = Size(pre.self)
           /\ self = pre.self

\* C28: a get (hit or miss) on an LRUDict with limit >= 1, in any reachable
\* state including a cache exactly at capacity, leaves the set of resident
\* keys and the value stored for each key unchanged; only the recency order
\* may change.
C28_ReadsNeverEvict ==
    IsRead => /\ DOMAIN self = DOMAIN pre.self
              /\ \A k \in DOMAIN self : self[k] = pre.self[k]

\* a resident key has been read in a cache exactly at capacity that holds
\* other keys as well, and the key order changed
C28_Witness ==
    /\ IsRead /\ Returned /\ WasResident
    /\ Size(pre.self) = limit
    /\ limit >= 2
    /\ _list # pre._list
    /\ self = pre.self

----------------------------------------------------------------------------
(* geoprint properties, over the completed calls of SpecGeo *)

Encoded == call.fn = "encode" /\ result.done

\* the distance, per axis, between the point encoded and the centre decoded
\* from its geoprint
RoundTripError ==
    LET ctr == decode(result.val)
    IN  <<Abs(ctr[1] - call.latitude), Abs(ctr[2] - call.longitude)>>

\* C13 as stated: for every latitude in [-90, 90], longitude in [-180, 180]
\* and precision P >= 1, decode(encode(lat, lon, P)) differs from (lat, lon)
\* by strictly less than error(code) on each axis.
C13_RoundTripStrict ==
    Encoded => /\ RoundTripError[1] < error(result.val)
               /\ RoundTripError[2] < error(result.val)

\* C13 amended: for every latitude in [-90, 90], longitude in [-180, 180]
\* and precision P >= 1, decode(encode(lat, lon, P)) differs from (lat, lon)
\* by at most error(code) on each axis.
C13_RoundTripBound ==
    Encoded => /\ RoundTripError[1] <= error(result.val)
               /\ RoundTripError[2] <= error(result.val)

\* a point on the edge of its cell, encoded with more than the hemisphere:
\* its latitude is exactly error(code) away from the centre
C13_Witness ==
    /\ Encoded
    /\ call.precision >= 2
    /\ RoundTripError[1] = error(result.val)
    /\ RoundTripError[2] < error(result.val)

\* C14: for every well-formed geoprint C of length >= 3, the cells touching
\* latitude +-90, longitude +-180 and the prime meridian included, every
\* code n returned by neighbors(C) satisfies adjacent(C, n) == True.
C14_NeighborConsistency ==
    (call.fn = "neighbors" /\ result.done /\ Len(call.geoprint) >= 3)
        => \A n \in result.val :
              LET a == adjacent(call.geoprint, n[2])
              IN  a.exc = "none" /\ a.val

\* C15: for every in-range (lat, lon) and all precisions 1 <= M < N,
\* encode(lat, lon, N) truncated to its first M characters equals
\* encode(lat, lon, M).
C15_PrefixComparable ==
    Encoded => \A M \in 1..(call.precision - 1) :
                  SubSeq(result.val, 1, M)
                      = encode(call.latitude, call.longitude, M)

\* a code of three characters or more, with two different characters after
\* the hemisphere, has been produced: it has proper prefixes to compare
C15_Witness ==
    /\ Encoded
    /\ call.precision >= 3
    /\ Len(result.val) = call.precision
    /\ result.val[2] # result.val[3]

Boxed == call.fn = "decode" /\ call.box /\ result.done

\* box b (as decode returns it with box=True) lies within box a
BoxWithin(b, a) ==
    /\ a[2][1] <= b[2][1] /\ b[3][1] <= a[3][1]
    /\ a[2][2] <= b[2][2] /\ b[3][2] <= a[3][2]

SameBox(a, b) == a[2] = b[2] /\ a[3] = b[3]

\* C16: for every well-formed code C of length N and every M with
\* 1 <= M < N, the bounding box of decode(C[:M]) strictly contains that of
\* decode(C): the latitude and longitude intervals of C lie within those of
\* C[:M], and the two boxes are not equal.
C16_PrefixMonotone ==
    Boxed => \A M \in 1..(Len(call.geoprint) - 1) :
                LET outer == decode_box(SubSeq(call.geoprint, 1, M))
                IN  /\ BoxWithin(result.val, outer)
                    /\ ~SameBox(result.val, outer)

\* the box of a code of three or more characters has been decoded, and it
\* shares its south-west corner with the box of its hemisphere
C16_Witness ==
    /\ Boxed
    /\ Len(call.geoprint) >= 3
    /\ result.val[2] = decode_box(SubSeq(call.geoprint, 1, 1))[2]
    /\ result.val[3] # decode_box(SubSeq(call.geoprint, 1, 1))[3]

AdjacentCalled == call.fn = "adjacent" /\ result.done

\* the two codes are distinct and have the same length, at least 3
SamePrecision ==
    /\ call.first # call.second
    /\ Len(call.first) = Len(call.second)
    /\ Len(call.first) >= 3

\* how far apart the two decoded centres are: <<latitude, longitude>>
CentreGap ==
    LET c1 == decode(call.first)
        c2 == decode(call.second)
    IN  <<Abs(c1[1] - c2[1]), Abs(c1[2] - c2[2])>>

\* C17: for two distinct well-formed codes A and B of equal length P >= 3,
\* adjacent(A, B) is true if and only if their decoded centres differ by
\* exactly one spacing 180/2^(P-1) along one axis with the other axis equal,
\* or by exactly one spacing along both axes; codes whose centres are
\* farther apart on either axis are not adjacent.
C17_AdjacencyDefinition ==
    (AdjacentCalled /\ SamePrecision)
        => LET s == LonMax \div 2^(Len(call.first) - 1)
               gap == CentreGap
           IN  /\ result.exc = "none"
               /\ result.val <=> \/ gap = <<s, 0>>
                                 \/ gap = <<0, s>>
                                 \/ gap = <<s, s>>
               /\ (gap[1] > s \/ gap[2] > s) => ~result.val

\* two cells that touch at a corner only have been compared
C17_Witness ==
    /\ AdjacentCalled
    /\ SamePrecision
    /\ result.exc = "none"
    /\ result.val
    /\ CentreGap[1] > 0
    /\ CentreGap[2] > 0

\* one of the two codes has fewer than 3 characters, or their lengths differ
PrecisionMismatch ==
    \/ Len(call.first) < 3
    \/ Len(call.second) < 3
    \/ Len(call.first) # Len(call.second)

\* C18 as stated: adjacent(A, B) fails with a TypeError for every pair of
\* codes in which either code has fewer than 3 characters or the two codes
\* have different lengths, and never returns a boolean for such a pair.
C18_MismatchAlwaysFails ==
    (AdjacentCalled /\ PrecisionMismatch) => result.exc = "TypeError"

\* C18 amended: adjacent(A, B) fails with a TypeError for every pair of
\* DISTINCT codes in which either code has fewer than 3 characters or the
\* two codes have different lengths, and never returns a boolean for such a
\* pair; for two equal codes it returns False whatever their length.
C18_MismatchFails ==
    (AdjacentCalled /\ PrecisionMismatch)
        => IF call.first = call.second
           THEN result.exc = "none" /\ ~result.val
           ELSE result.exc = "TypeError"

\* two codes of 3 characters or more and of different lengths have been
\* compared, and the call raised
C18_Witness ==
    /\ AdjacentCalled
    /\ Len(call.first) >= 3
    /\ Len(call.second) > Len(call.first)
    /\ result.exc = "TypeError"

\* C19: adjacent(A, A) returns False for every code A.
C19_SelfNotAdjacent ==
    (AdjacentCalled /\ call.first = call.second)
        => result.exc = "none" /\ result.val = FALSE

\* a code too short for an adjacency test has been compared with itself
C19_Witness ==
    /\ AdjacentCalled
    /\ call.first = call.second
    /\ Len(call.first) < 3
    /\ result.exc = "none"

\* C20: for all well-formed codes A and B of the same length >= 3,
\* adjacent(A, B) == adjacent(B, A).
C20_AdjacencySymmetry ==
    (AdjacentCalled /\ Len(call.first) = Len(call.second)
                    /\ Len(call.first) >= 3)
        => LET swapped == adjacent(call.second, call.first)
           IN  /\ result.exc = "none"
               /\ swapped.exc = "none"
               /\ result.val = swapped.val

\* two adjacent cells have been compared, the first one lying to the north
\* of the second
C20_Witness ==
    /\ AdjacentCalled
    /\ SamePrecision
    /\ result.exc = "none"
    /\ result.val
    /\ decode(call.first)[1] > decode(call.second)[1]

\* C22: for every in-range (lat, lon) and every precision P >= 1, encode
\* returns a string of exactly P characters whose first character is 'w'
\* when longitude < 0 and 'e' when longitude >= 0 (longitude 0 gives 'e'),
\* and whose remaining characters are all in {g, a, t, c}.
C22_WellFormed ==
    Encoded => /\ Len(result.val) = call.precision
               /\ result.val[1] = (IF call.longitude < 0 THEN "w" ELSE "e")
               /\ \A i \in 2..Len(result.val) :
                     result.val[i] \in {"g", "a", "t", "c"}

\* a point on the prime meridian has been encoded with more than one
\* character
C22_Witness ==
    /\ Encoded
    /\ call.longitude = 0
    /\ call.precision >= 2
    /\ result.val[1] = "e"
    /\ result.val \in Geoprints

\* the width of the latitude and of the longitude interval of a box
BoxWidths(b) == <<b[3][1] - b[2][1], b[3][2] - b[2][2]>>

\* C23: for every well-formed code of length N >= 1, the bounding box that
\* decode produces has a latitude interval and a longitude interval that
\* are both exactly 180/2^(N-1) degrees wide, and error(code) is exactly
\* half of that width.
C23_IntervalWidth ==
    Boxed => LET width == LonMax \div 2^(Len(call.geoprint) - 1)
             IN  /\ width * 2^(Len(call.geoprint) - 1) = LonMax
                 /\ BoxWidths(result.val) = <<width, width>>
                 /\ 2 * error(call.geoprint) = width

\* the box of a code of the greatest length has been decoded: it is a
\* square narrower than the starting intervals
C23_Witness ==
    /\ Boxed
    /\ Len(call.geoprint) = MaxPrec
    /\ BoxWidths(result.val)[1] = BoxWidths(result.val)[2]
    /\ BoxWidths(result.val)[1] < LonMax

NeighborsCalled == call.fn = "neighbors" /\ result.done

\* the code one would get for the cell latStep spacings higher in latitude
\* and lonStep spacings higher in longitude than the centre of C
Shifted(C, latStep, lonStep) ==
    LET spacing == LonMax \div 2^(Len(C) - 1)
        centre == decode(C)
    IN  encode(centre[1] + latStep * spacing, centre[2] + lonStep * spacing,
               Len(C))

\* C24: neighbors(C) with labels returns, for the (latStep, lonStep)
\* offsets (0,1),(0,-1),(1,0),(1,1),(1,-1),(-1,0),(-1,1),(-1,-1) taken in
\* that order, the code encode(centerLat + latStep*spacing,
\* centerLon + lonStep*spacing, len(C)) paired with the labels
\* N,S,E,NE,SE,W,NW,SW respectively; the entry labelled 'N' is the cell at
\* the same latitude one spacing higher in longitude.
C24_NeighborLabels ==
    NeighborsCalled
        => LET C == call.geoprint
           IN  result.val = { <<"N",  Shifted(C,  0,  1)>>,
                              <<"S",  Shifted(C,  0, -1)>>,
                              <<"E",  Shifted(C,  1,  0)>>,
                              <<"NE", Shifted(C,  1,  1)>>,
                              <<"SE", Shifted(C,  1, -1)>>,
                              <<"W",  Shifted(C, -1,  0)>>,
                              <<"NW", Shifted(C, -1,  1)>>,
                              <<"SW", Shifted(C, -1, -1)>> }

\* the neighbours of a cell with eight distinct ones have been computed,
\* and the one labelled 'N' lies at the same latitude, further east
C24_Witness ==
    /\ NeighborsCalled
    /\ Len(call.geoprint) >= 3
    /\ Cardinality({n[2] : n \in result.val}) = 8
    /\ \E n \in result.val :
          /\ n[1] = "N"
          /\ decode(n[2])[1] = decode(call.geoprint)[1]
          /\ decode(n[2])[2] > decode(call.geoprint)[2]

Decoded == call.fn = "decode" /\ ~call.box /\ result.done

\* C29: for every well-formed code C of length >= 1, re-encoding its
\* decoded centre at the same precision returns C itself:
\* encode(decode(C).lat, decode(C).lon, len(C)) == C.
C29_CentreRoundTrip ==
    Decoded => encode(result.val[1], result.val[2], Len(call.geoprint))
                   = call.geoprint

\* the centre of a cell of the greatest precision, off the equator and in
\* the western hemisphere, has been decoded
C29_Witness ==
    /\ Decoded
    /\ Len(call.geoprint) = MaxPrec
    /\ result.val[1] # 0
    /\ result.val[2] < 0
    /\ call.geoprint[1] = "w"

\* C30: neighbors is complete for adjacency: when adjacent(A, B) returns True
\* for two codes of the same length >= 3, B is one of the codes of
\* neighbors(A), also when A and B lie on the two sides of the prime
\* meridian and differ in their hemisphere character.
C30_NeighborsComplete ==
    (AdjacentCalled /\ result.exc = "none" /\ result.val = TRUE)
        => call.second \in { n[2] : n \in neighbors(call.first) }

\* an adjacent pair across the prime meridian, touching at a corner
C30_Witness ==
    /\ AdjacentCalled
    /\ result.exc = "none"
    /\ result.val = TRUE
    /\ Len(call.first) = MaxPrec
    /\ call.first[1] = "w"
    /\ call.second[1] = "e"
    /\ decode(call.first)[1] # decode(call.second)[1]

----------------------------------------------------------------------------
(* geoprint properties, over the completed calls of SpecVec *)

\* C21: encode(7.0625, -95.677068) with the default precision 22 returns
\* exactly the string "watttatcttttgctacgaagt".
C21_ConcreteVector ==
    (/\ call.fn = "encode" /\ result.done
     /\ call.latitude = 7062500 /\ call.longitude = -95677068
     /\ call.precision = DefaultPrecision)
        => result.val = <<"w", "a", "t", "t", "t", "a", "t", "c",
                          "t", "t", "t", "t", "g", "c", "t", "a",
                          "c", "g", "a", "a", "g", "t">>

\* the vector's point has been encoded at the default precision
C21_Witness ==
    /\ call.fn = "encode" /\ result.done
    /\ call.latitude = 7062500 /\ call.longitude = -95677068
    /\ call.precision = DefaultPrecision
    /\ Len(result.val) = DefaultPrecision

----------------------------------------------------------------------------
(* RPC client properties, under SpecRpc *)

\* C25: when Method.__call__ (and Promise.value) polls for the reply and
\* the poll times out, the client closes and reconnects its socket and
\* sends the request again before polling again, up to retry_limit times;
\* only if every attempt gets no reply does it raise TimeoutError, and a
\* reply received on any attempt is returned.  As a state property: every
\* poll is preceded by a connect and a send of its own, TimeoutError comes
\* after retry_limit polls without a reply, and what is returned is a reply.
C25_RetryResends ==
    /\ (rpc.pc = "poll" /\ rpc.tries < rpc.retry_limit)
          => /\ rpc.sends = rpc.tries + 1
             /\ rpc.connects = rpc.tries + 1
    /\ (rpc.pc = "done" /\ rpc.outcome = "TimeoutError")
          => rpc.tries = rpc.retry_limit
    /\ (rpc.pc = "done" /\ rpc.outcome = "return")
          => rpc.val \in Replies

----------------------------------------------------------------------------
(* Long geoprints.  The coordinates are Python floats: binary64, a sign    *)
(* and a significand of Mantissa bits, every sum rounded to the nearest    *)
(* such number, ties to the even significand.  A float is held here as its *)
(* sign and its magnitude in binary fixed point, FracBits bits after the   *)
(* point, cut into limbs of LimbBits bits, least significant first: enough *)
(* for every bound and midpoint of a geoprint of at most MaxLen            *)
(* characters, so the only rounding is the one binary64 performs.          *)

\* the significand of a binary64 float, hidden bit included
Mantissa == 53

\* the length of the longest geoprint decoded
MaxLen == 57

\* bits after the binary point: a bound or centre of a code of MaxLen
\* characters is a multiple of 45/2^(MaxLen - 2)
FracBits == MaxLen + 1

\* a magnitude below 2^9 with FracBits bits after the point, in limbs of
\* LimbBits bits
LimbBits == 20
Base == 2^LimbBits
Limbs == ((FracBits + 9) \div LimbBits) + 1

\* limb i of a magnitude, 0 above the highest
Limb(m, i) == IF i <= Limbs THEN m[i] ELSE 0

ZeroMag == SubSeq([i \in 1..Limbs |-> 0], 1, Limbs)

\* the float of a whole number n, -512 < n < 512
FloatOf(n) ==
    LET at == (FracBits \div LimbBits) + 1
        v  == Abs(n) * 2^(FracBits % LimbBits)
    IN  [neg |-> n < 0,
         mag |-> [[ZeroMag EXCEPT ![at] = v % Base]
                           EXCEPT ![at + 1] = v \div Base]]

\* the number of bits of a limb
BitLength(v) ==
    CHOOSE k \in 0..LimbBits : v < 2^k /\ (k = 0 \/ v >= 2^(k - 1))

\* the number of bits of a magnitude, 0 for zero
MagBits(m) ==
    LET set == { i \in 1..Limbs : m[i] # 0 }
    IN  IF set = {} THEN 0
        ELSE LET top == CHOOSE i \in set : \A j \in set : j <= i
             IN  (top - 1) * LimbBits + BitLength(m[top])

RECURSIVE MagAddLoop(_, _, _, _, _)
MagAddLoop(x, y, i, carry, acc) ==
    IF i > Limbs THEN acc
    ELSE LET s == x[i] + y[i] + carry
         IN  MagAddLoop(x, y, i + 1, s \div Base, Append(acc, s % Base))

\* x + y on magnitudes, exact
MagAdd(x, y) == MagAddLoop(x, y, 1, 0, <<>>)

RECURSIVE MagSubLoop(_, _, _, _, _)
MagSubLoop(x, y, i, borrow, acc) ==
    IF i > Limbs THEN acc
    ELSE LET s == x[i] - y[i] - borrow
         IN  MagSubLoop(x, y, i + 1, IF s < 0 THEN 1 ELSE 0,
                        Append(acc, (s + Base) % Base))

\* x - y on magnitudes with x >= y, exact
MagSub(x, y) == MagSubLoop(x, y, 1, 0, <<>>)

\* x < y on magnitudes, decided at the highest limb where they differ
MagLess(x, y) ==
    LET set == { i \in 1..Limbs : x[i] # y[i] }
    IN  /\ set # {}
        /\ LET top == CHOOSE i \in set : \A j \in set : j <= i
           IN  x[top] < y[top]

\* round to nearest, ties to even: the lowest drop bits go, and they all
\* lie in the lowest limb (drop <= LimbBits)
RoundEven(m, drop) ==
    LET unit == 2^drop
        r    == m[1] % unit
        odd  == IF drop < LimbBits THEN (m[1] \div unit) % 2 = 1
                                   ELSE m[2] % 2 = 1
        up   == 2 * r > unit \/ (2 * r = unit /\ odd)
        kept == [m EXCEPT ![1] = m[1] - r]
    IN  IF up THEN MagAdd(kept, [ZeroMag EXCEPT ![1] = unit]) ELSE kept

\* the exact magnitude m as binary64 stores it: the Mantissa bits from its
\* highest set bit down are kept, the rest is rounded away
Round(m) ==
    LET drop == MagBits(m) - Mantissa
    IN  IF drop <= 0 THEN m ELSE RoundEven(m, drop)

Float(neg, mag) ==
    [neg |-> neg /\ mag # ZeroMag, mag |-> Round(mag)]

\* a + b
FloatAdd(a, b) ==
    IF a.neg = b.neg THEN Float(a.neg, MagAdd(a.mag, b.mag))
    ELSE IF MagLess(a.mag, b.mag)
         THEN Float(b.neg, MagSub(b.mag, a.mag))
         ELSE Float(a.neg, MagSub(a.mag, b.mag))

\* -a
FloatNeg(a) == [neg |-> ~a.neg /\ a.mag # ZeroMag, mag |-> a.mag]

\* a - b
FloatSub(a, b) == FloatAdd(a, FloatNeg(b))

\* abs(a)
FloatAbs(a) == [neg |-> FALSE, mag |-> a.mag]

\* a / 2^k: the exponent drops by k, no bit is lost
FloatShift(a, k) ==
    LET limbs == k \div LimbBits
        bits  == 2^(k % LimbBits)
    IN  [neg |-> a.neg,
         mag |-> SubSeq([i \in 1..Limbs |->
                            (Limb(a.mag, i + limbs) \div bits)
                            + (Limb(a.mag, i + limbs + 1) % bits)
                              * (Base \div bits)],
                        1, Limbs)]

\* a > b
FloatGt(a, b) ==
    IF a.neg # b.neg THEN b.neg
    ELSE IF a.neg THEN MagLess(a.mag, b.mag)
    ELSE MagLess(b.mag, a.mag)

\* (a + b) / 2
FloatMid(a, b) == FloatShift(FloatAdd(a, b), 1)

F0 == FloatOf(0)
F90 == FloatOf(90)
F180 == FloatOf(180)

\* one pass of encode's while loop, on floats
EncodeStepFloat(st, latitude, longitude) ==
    LET lonmid == FloatMid(st.loni.min, st.loni.max)
        latmid == FloatMid(st.lati.min, st.lati.max)
        east  == FloatGt(longitude, lonmid)
        north == FloatGt(latitude, latmid)
        ch == (IF east THEN 2 ELSE 0) + (IF north THEN 1 ELSE 0)
    IN  [geoprint |-> Append(st.geoprint, alphabet[ch + 1]),
         loni |-> IF east THEN interval(lonmid, st.loni.max)
                          ELSE interval(st.loni.min, lonmid),
         lati |-> IF north THEN interval(latmid, st.lati.max)
                           ELSE interval(st.lati.min, latmid)]

\* while len(geoprint) < precision
RECURSIVE EncodeLoopFloat(_, _, _, _)
EncodeLoopFloat(st, latitude, longitude, precision) ==
    IF Len(st.geoprint) < precision
    THEN EncodeLoopFloat(EncodeStepFloat(st, latitude, longitude),
                         latitude, longitude, precision)
    ELSE st

\* encode(latitude, longitude, precision) on floats, in degrees, box=False
encode_float(latitude, longitude, precision) ==
    LET st == IF longitude.neg
              THEN [geoprint |-> <<"w">>,
                    loni |-> interval(FloatNeg(F180), F0),
                    lati |-> interval(FloatNeg(F90), F90)]
              ELSE [geoprint |-> <<"e">>,
                    loni |-> interval(F0, F180),
                    lati |-> interval(FloatNeg(F90), F90)]
    IN  EncodeLoopFloat(st, latitude, longitude, precision).geoprint

\* one pass of decode's for loop that leaves the cell as it is on 'g'
DecodeStepFloat_skip(st) ==
    LET cd == decodemap(Head(st.rest))
        lonmid == FloatMid(st.loni.min, st.loni.max)
        latmid == FloatMid(st.lati.min, st.lati.max)
    IN  IF cd = 0 THEN [st EXCEPT !.rest = Tail(st.rest)]
        ELSE [rest |-> Tail(st.rest),
              loni |-> IF BitAnd(cd, 2) # 0
                       THEN interval(lonmid, st.loni.max)
                       ELSE interval(st.loni.min, lonmid),
              lati |-> IF BitAnd(cd, 1) # 0
                       THEN interval(latmid, st.lati.max)
                       ELSE interval(st.lati.min, latmid)]

\* one pass of decode's for loop that halves the longitude interval only
DecodeStepFloat_lononly(st) ==
    LET cd == decodemap(Head(st.rest))
        lonmid == FloatMid(st.loni.min, st.loni.max)
    IN  [rest |-> Tail(st.rest),
         loni |-> IF BitAnd(cd, 2) # 0 THEN interval(lonmid, st.loni.max)
                                       ELSE interval(st.loni.min, lonmid),
         lati |-> st.lati]

\* one pass of decode's for loop, on floats; rest holds the characters
\* still to come
DecodeStepFloat(st) ==
    LET cd == decodemap(Head(st.rest))
        lonmid == FloatMid(st.loni.min, st.loni.max)
        latmid == FloatMid(st.lati.min, st.lati.max)
    IN  [rest |-> Tail(st.rest),
         loni |-> IF BitAnd(cd, 2) # 0 THEN interval(lonmid, st.loni.max)
                                       ELSE interval(st.loni.min, lonmid),
         lati |-> IF BitAnd(cd, 1) # 0 THEN interval(latmid, st.lati.max)
                                       ELSE interval(st.lati.min, latmid)]

\* for c in geoprint
RECURSIVE DecodeLoopFloat(_)
DecodeLoopFloat(st) ==
    IF st.rest = <<>> THEN st ELSE DecodeLoopFloat(DecodeStepFloat(st))

\* the intervals decode ends with
DecodeIntervalsFloat(geoprint) ==
    DecodeLoopFloat([rest |-> Tail(geoprint),
                     lati |-> interval(FloatNeg(F90), F90),
                     loni |-> IF Head(geoprint) = "w"
                              THEN interval(FloatNeg(F180), F0)
                              ELSE interval(F0, F180)])

\* decode returning the south-west corner of the cell instead of its centre
decode_float_corner(geoprint) ==
    LET st == DecodeIntervalsFloat(geoprint)
    IN  <<st.lati.min, st.loni.min>>

\* decode(geoprint) on floats: the centre (lat, lon)
decode_float(geoprint) ==
    LET st == DecodeIntervalsFloat(geoprint)
    IN  <<FloatMid(st.lati.min, st.lati.max),
          FloatMid(st.loni.min, st.loni.max)>>

\* decode(geoprint, box=True) on floats
decode_box_float(geoprint) ==
    LET st == DecodeIntervalsFloat(geoprint)
    IN  <<Tail(geoprint), <<st.lati.min, st.loni.min>>,
                          <<st.lati.max, st.loni.max>>>>

\* error with the exponent len(geoprint)
error_float_len(geoprint) == FloatShift(F90, Len(geoprint))

\* error(geoprint) on floats: 90.0 * pow(2, neg(len(geoprint) - 1))
error_float(geoprint) == FloatShift(F90, Len(geoprint) - 1)

\* 180 / (2.0 ** (precision - 1))
SpacingFloat(precision) == FloatShift(F180, precision - 1)

\* neighbors with the four diagonal directions left out
neighbors_float_cardinal(geoprint) ==
    LET precision == Len(geoprint)
        spacing == SpacingFloat(precision)
        ctr == decode_float(geoprint)
        step(direction) == IF direction = 0 THEN F0
                           ELSE IF direction = 1 THEN spacing
                           ELSE FloatNeg(spacing)
    IN  { <<dirs[i],
            encode_float(FloatAdd(ctr[1], step(Directions[i][1])),
                         FloatAdd(ctr[2], step(Directions[i][2])),
                         precision)>> :
              i \in { j \in 1..Len(Directions) :
                          Directions[j][1] = 0 \/ Directions[j][2] = 0 } }

\* neighbors(geoprint) on floats, bearing=True
neighbors_float(geoprint) ==
    LET precision == Len(geoprint)
        spacing == SpacingFloat(precision)
        ctr == decode_float(geoprint)
        step(direction) == IF direction = 0 THEN F0
                           ELSE IF direction = 1 THEN spacing
                           ELSE FloatNeg(spacing)
    IN  { <<dirs[i],
            encode_float(FloatAdd(ctr[1], step(Directions[i][1])),
                         FloatAdd(ctr[2], step(Directions[i][2])),
                         precision)>> : i \in 1..Len(Directions) }

\* adjacent(first, second) on floats
adjacent_float(first, second) ==
    IF first = second THEN GeoReturn(FALSE)
    ELSE IF Min(Len(first), Len(second)) < 3 THEN GeoRaise("TypeError")
    ELSE IF Len(first) # Len(second) THEN GeoRaise("TypeError")
    ELSE LET c1 == decode_float(first)
             c2 == decode_float(second)
             spacing == SpacingFloat(Len(first))
             dlat == FloatAbs(FloatSub(c1[1], c2[1]))
             dlng == FloatAbs(FloatSub(c1[2], c2[2]))
         IN  GeoReturn(\/ dlat = spacing /\ c1[2] = c2[2]
                       \/ dlng = spacing /\ c1[1] = c2[1]
                       \/ dlat = spacing /\ dlng = spacing)

\* the long geoprints: the hemisphere and one character repeated, of every
\* length up to MaxLen.  decode is called on these and on every geoprint of
\* at most MaxPrec characters; encode is called, at the precision of such a
\* code, on the centre and on two corners of its cell.
LongCode(hemisphere, c, n) == <<hemisphere>> \o [i \in 1..(n - 1) |-> c]

LongCodes ==
    { LongCode(hemisphere, c, n) :
          hemisphere \in {"w", "e"},
          c \in { alphabet[i] : i \in 1..Len(alphabet) },
          n \in 1..MaxLen }

\* the centre, the south-west and the north-east corner of a code's cell
CellPoints(geoprint) ==
    LET b == decode_box_float(geoprint)
    IN  {decode_float(geoprint), b[2], b[3]}

\* a long code with its last character replaced by each of the four: the
\* cell, and the three it shares its parent cell with
Siblings(geoprint) ==
    { SubSeq(geoprint, 1, Len(geoprint) - 1) \o <<alphabet[i]>> :
          i \in 1..Len(alphabet) }

\* the lengths at which adjacent is called: the shortest it accepts, and
\* those around the length where the floats run out of bits
AdjacentLens == { n \in 3..MaxLen : n <= 4 \/ n >= Mantissa - 7 }

InitFloat ==
    /\ NoCache
    /\ result = NoResult
    /\ rpc = NoRpc
    /\ \/ \E geoprint \in LongCodes \cup Geoprints, box \in BOOLEAN :
              call = [fn |-> "decode", geoprint |-> geoprint, box |-> box]
       \/ \E geoprint \in LongCodes \cup Geoprints :
              \E point \in CellPoints(geoprint) :
                 call = [fn |-> "encode", latitude |-> point[1],
                         longitude |-> point[2], precision |-> Len(geoprint)]
       \/ \E geoprint \in LongCodes, second \in LongCodes :
              /\ Len(geoprint) \in AdjacentLens
              /\ Len(second) = Len(geoprint)
              /\ \E first \in Siblings(geoprint) :
                    call = [fn |-> "adjacent", first |-> first,
                            second |-> second]

FloatEncode ==
    /\ call.fn = "encode"
    /\ Complete(GeoReturn(encode_float(call.latitude, call.longitude,
                                       call.precision)))

FloatDecode ==
    /\ call.fn = "decode"
    /\ Complete(GeoReturn(IF call.box THEN decode_box_float(call.geoprint)
                                      ELSE decode_float(call.geoprint)))

FloatAdjacent ==
    /\ call.fn = "adjacent"
    /\ Complete(adjacent_float(call.first, call.second))

NextFloat ==
    \/ FloatEncode
    \/ FloatDecode
    \/ FloatAdjacent

SpecFloat == InitFloat /\ [][NextFloat]_vars

----------------------------------------------------------------------------
(* geoprint properties on long codes, over the completed calls of          *)
(* SpecFloat                                                               *)

\* the width of the latitude and of the longitude interval of a box
BoxWidthsFloat(b) == <<FloatSub(b[3][1], b[2][1]), FloatSub(b[3][2], b[2][2])>>

\* both intervals of the decoded box are 180/2^(N-1) wide, and error(code)
\* is half of that
WidthsAsStated ==
    LET width == SpacingFloat(Len(call.geoprint))
        e == error_float(call.geoprint)
    IN  /\ BoxWidthsFloat(result.val) = <<width, width>>
        /\ FloatAdd(e, e) = width

\* C23: for every well-formed code of length N >= 1, the bounding box that
\* decode produces has a latitude interval and a longitude interval that
\* are both exactly 180/2^(N-1) degrees wide, and error(code) is exactly
\* half of that width.  (As stated, for every length.)
C23_WidthAnyLength == Boxed => WidthsAsStated

\* the longest code whose bounds all fit a float's significand: a bound is
\* a multiple of 180/2^(N-1) below 2^8, N + 5 bits
ExactLen == Mantissa - 5

\* C23, for the lengths whose bounds a float holds exactly: for every
\* well-formed code of length 1 <= N <= ExactLen, both intervals of the
\* box are exactly 180/2^(N-1) degrees wide and error(code) is exactly half
\* of that.
C23_ExactWidth ==
    (Boxed /\ Len(call.geoprint) <= ExactLen) => WidthsAsStated

\* the box of a code of the greatest exact length, reaching longitude 180,
\* has been decoded
C23_WitnessFloat ==
    /\ Boxed
    /\ Len(call.geoprint) = ExactLen
    /\ result.val[3][2] = F180
    /\ result.val[2][2] # F180

\* re-encoding the decoded centre at the same precision returns the code
CentreAsStated ==
    encode_float(result.val[1], result.val[2], Len(call.geoprint))
        = call.geoprint

ExactCentreLen == ExactLen - 1

AdjacentTrue ==
    /\ AdjacentCalled
    /\ result.exc = "none"
    /\ result.val = TRUE

\* the second code is among the neighbours of the first
NeighborsAsStated ==
    call.second \in { n[2] : n \in neighbors_float(call.first) }

RoundTripErrorFloat ==
    LET ctr == decode_float(result.val)
    IN  <<FloatAbs(FloatSub(call.latitude, ctr[1])),
          FloatAbs(FloatSub(call.longitude, ctr[2]))>>

\* C13 as stated, for every precision: decode(encode(lat, lon, P)) differs
\* from (lat, lon) by strictly less than error(code) on each axis.
C13_StrictAnyPrecision ==
    Encoded => /\ FloatGt(error_float(result.val), RoundTripErrorFloat[1])
               /\ FloatGt(error_float(result.val), RoundTripErrorFloat[2])

\* the difference is at most error(code) on each axis
BoundAsAmended ==
    /\ ~FloatGt(RoundTripErrorFloat[1], error_float(result.val))
    /\ ~FloatGt(RoundTripErrorFloat[2], error_float(result.val))

\* C13 with "at most", for every precision
C13_BoundAnyPrecision == Encoded => BoundAsAmended

\* C13 amended: for every latitude in [-90, 90], longitude in [-180, 180]
\* and precision 1 <= P <= ExactCentreLen, decode(encode(lat, lon, P))
\* differs from (lat, lon) by at most error(code) on each axis.
C13_ExactBound ==
    (Encoded /\ call.precision <= ExactCentreLen) => BoundAsAmended

\* a corner of a cell of the greatest exact precision has been encoded: it
\* is exactly error(code) away from the centre decoded, on both axes
C13_WitnessFloat ==
    /\ Encoded
    /\ call.precision = ExactCentreLen
    /\ RoundTripErrorFloat[1] = error_float(result.val)
    /\ RoundTripErrorFloat[2] = error_float(result.val)

\* box b (as decode returns it with box=True) lies within box a
BoxWithinFloat(b, a) ==
    /\ ~FloatGt(a[2][1], b[2][1]) /\ ~FloatGt(b[3][1], a[3][1])
    /\ ~FloatGt(a[2][2], b[2][2]) /\ ~FloatGt(b[3][2], a[3][2])

\* the box decoded lies within the box of every proper prefix of the code
\* and differs from it
PrefixesAsStated ==
    \A M \in 1..(Len(call.geoprint) - 1) :
        LET outer == decode_box_float(SubSeq(call.geoprint, 1, M))
        IN  /\ BoxWithinFloat(result.val, outer)
            /\ ~SameBox(result.val, outer)

====
